---- MODULE Spec2Model ----
(***************************************************************************)
(* Conversational answer resolution and session progression engine:       *)
(* services/conversation_service.py, helpers/validators.py,               *)
(* services/gemini_service.py and the select/voice routes.                 *)
(***************************************************************************)
EXTENDS Integers, Sequences, FiniteSets, TLC

\* ---------------------------------------------------------------- bounds
MaxEntries == 2
MaxOrder == 3

\* ------------------------------------------------------- value domains
\* Python None
None == "<None>"
\* the empty string (falsy in Python, but not None)
EMPTY == ""
\* the literal string the request validators turn into None
NULLSTR == "null"

SORRY_DONT_UNDERSTAND == "SORRY_DONT_UNDERSTAND"
SUGGESTION_REQUEST == "SUGGESTION_REQUEST"
sorry_message == "Sorry, I don't understand your request. Could you please rephrase or select from the available options?"
suggestion_failure_message == "Sorry, I couldn't get food suggestions at the moment. Please try again later."
SUGGESTION_TEXT == "Here are some suggestions"

QKeys == {"q1", "q2", "q3"}
AKeys == {"a1", "a2"}
UNKNOWN_KEY == "zz"

\* truthiness of an Optional[str]: None and "" are falsy
Truthy(v) == v # None /\ v # EMPTY

\* --------------------------------------------------------- the catalog
\* QuestionMaster rows, keyed by the unique question_key
NoQuestion == [exists |-> FALSE, question_order |-> 0, is_active |-> FALSE]
QuestionRows ==
    {NoQuestion} \cup
    [exists : {TRUE}, question_order : 1..MaxOrder, is_active : BOOLEAN]
QuestionCatalogs == [QKeys -> QuestionRows]

\* AnswerMaster rows, keyed by the unique answer_key
NoAnswer == [exists |-> FALSE, question_key |-> None, is_active |-> FALSE]
AnswerRows ==
    {NoAnswer} \cup
    [exists : {TRUE}, question_key : QKeys, is_active : BOOLEAN]
AnswerCatalogs == [AKeys -> AnswerRows]

VARIABLES questions, answers, entries, next_id, last, cursor, chain, chainDone,
          inflight, sessions, user_services, carts, cart_items

vars == <<questions, answers, entries, next_id, last, cursor, chain, chainDone,
          inflight, sessions, user_services, carts, cart_items>>

\* ------------------------------------------------------------ validators
\* a plausible slip: the is_active filter is left out
validate_question_key_any(qs, question_key) ==
    /\ question_key \in DOMAIN qs
    /\ qs[question_key].exists

validate_question_key(qs, question_key) ==
    /\ question_key \in DOMAIN qs
    /\ qs[question_key].exists
    /\ qs[question_key].is_active

validate_answer_key(as, answer_key, question_key) ==
    /\ answer_key \in DOMAIN as
    /\ as[answer_key].exists
    /\ as[answer_key].question_key = question_key
    /\ as[answer_key].is_active

\* the answer_key values of the active answers of a question
get_active_answers_for_question(as, question_key) ==
    {a \in DOMAIN as : /\ as[a].exists
                       /\ as[a].question_key = question_key
                       /\ as[a].is_active}

\* ------------------------------------------------- progression engine
ActiveQuestions(qs) == {k \in DOMAIN qs : qs[k].exists /\ qs[k].is_active}

\* a plausible slip: descending order
FirstByOrder_desc(qs, ks) ==
    IF ks = {} THEN {None}
    ELSE {k \in ks : \A j \in ks : qs[k].question_order >= qs[j].question_order}

\* .order_by(question_order).first(): a row of least order, None if no row
FirstByOrder(qs, ks) ==
    IF ks = {} THEN {None}
    ELSE {k \in ks : \A j \in ks : qs[k].question_order <= qs[j].question_order}

\* a plausible slip: >= in place of > when looking past the current question
get_next_question_wrong_order(qs, current_question_key) ==
    IF Truthy(current_question_key)
    THEN IF current_question_key \in DOMAIN qs /\ qs[current_question_key].exists
         THEN FirstByOrder(qs, {k \in ActiveQuestions(qs) :
                 qs[k].question_order >= qs[current_question_key].question_order
                 /\ k # current_question_key})
         ELSE {None}
    ELSE FirstByOrder(qs, ActiveQuestions(qs))

\* the set of rows the two queries may return (ties in question_order are
\* resolved by the store)
get_next_question(qs, current_question_key) ==
    IF Truthy(current_question_key)
    THEN IF current_question_key \in DOMAIN qs /\ qs[current_question_key].exists
         THEN FirstByOrder(qs, {k \in ActiveQuestions(qs) :
                 qs[k].question_order > qs[current_question_key].question_order})
         ELSE {None}
    ELSE FirstByOrder(qs, ActiveQuestions(qs))

\* a plausible slip: the call resumes after the question of the session's
\* latest recorded turn
get_next_question_resume(qs, ents, session_id, current_question_key) ==
    LET mine(row) == row.session_id = session_id
        turns == SelectSeq(ents, mine)
    IN  IF turns = <<>> THEN get_next_question(qs, current_question_key)
        ELSE get_next_question(qs, turns[Len(turns)].question_key)

\* ConversationService.get_next_question(db, session_id, current_question_key):
\* the session id and the conversation log are at hand and are not read
ConversationService_get_next_question(qs, ents, session_id, current_question_key) ==
    get_next_question(qs, current_question_key)

\* GET /next-question of select_routes.py and voice_routes.py
next_question_route(qs, current_question_key, picked) ==
    IF picked = None
    THEN [http |-> 200, completed |-> TRUE, question |-> None]
    ELSE [http |-> 200, completed |-> FALSE, question |-> picked]

\* ------------------------------------------------------------ schemas
\* validators convert_null_string / convert_null_string_response
convert_null_string(v) == IF v \in {"null", "NULL", None} THEN None ELSE v

ConversationEntryCreate(session_id, user_id, question_key, answer_key, custom_input, responseText, select_type) ==
    [session_id |-> session_id, user_id |-> user_id,
     question_key |-> question_key,
     answer_key |-> convert_null_string(answer_key),
     custom_input |-> custom_input,
     responseText |-> convert_null_string(responseText),
     select_type |-> select_type]

SelectAnswerRequest(session_id, user_id, question_key, answer_key, responseText) ==
    [session_id |-> session_id, user_id |-> user_id,
     question_key |-> question_key,
     answer_key |-> convert_null_string(answer_key),
     responseText |-> convert_null_string(responseText)]

VoiceAnswerRequest(session_id, user_id, question_key, voice_text) ==
    [session_id |-> session_id, user_id |-> user_id,
     question_key |-> question_key, voice_text |-> voice_text]

\* ConversationEntryResponse.from_orm(db_entry): the ORM row has no
\* responseText attribute, so that field takes its default
from_orm(row) ==
    [id |-> row.id, session_id |-> row.session_id, user_id |-> row.user_id,
     question_key |-> row.question_key, answer_key |-> row.answer_key,
     custom_input |-> row.custom_input, responseText |-> None]

\* ------------------------------------------------------------ analyzers
RAISE == "<raise>"
ModelOutputs == AKeys \cup {"NONE", SUGGESTION_REQUEST, UNKNOWN_KEY, RAISE}

\* everything one call meets outside the store: whether the API keys are
\* set, the model text (RAISE: generate_content raises), whether the
\* suggestion service formats a reply, and where the insert fails
Faults == {"none", "commit", "refresh"}
Oracles == [gemini_key : BOOLEAN, out : ModelOutputs, sugg_ok : BOOLEAN,
            openai_key : BOOLEAN, fault : Faults]
Calm == [gemini_key |-> TRUE, out |-> RAISE, sugg_ok |-> TRUE,
         openai_key |-> TRUE, fault |-> "none"]

\* a plausible slip: an unexpected answer is passed on as it is
analyze_user_response_fail_open(available_answers, out) ==
    IF available_answers = {} THEN None
    ELSE IF out = RAISE THEN None
    ELSE IF out \in available_answers THEN out
    ELSE IF out = "NONE" THEN SORRY_DONT_UNDERSTAND
    ELSE out

\* GeminiAnalyzer.analyze_user_response; out is the stripped model text
analyze_user_response(available_answers, out) ==
    IF available_answers = {} THEN None
    ELSE IF out = RAISE THEN None
    ELSE IF out \in available_answers THEN out
    ELSE IF out = "NONE" THEN SORRY_DONT_UNDERSTAND
    ELSE IF out = SUGGESTION_REQUEST THEN SUGGESTION_REQUEST
    ELSE SORRY_DONT_UNDERSTAND

\* ------------------------------------------------------------- recorder
Result(ents, nid, raised, response) ==
    [entries |-> ents, next_id |-> nid, raised |-> raised, response |-> response]

\* a plausible slip: the row is merged over the latest row instead of added
insert_row_merge(ents, db_entry) ==
    IF ents = <<>> THEN <<db_entry>>
    ELSE [ents EXCEPT ![Len(ents)] = db_entry]

\* db.add(db_entry); db.commit()
insert_row(ents, db_entry) == Append(ents, db_entry)

\* a plausible slip: the response is built and returned without the insert
create_conversation_entry_unsaved(qs, as, ents, nid, entry_data, o) ==
    IF ~o.openai_key
    THEN Result(ents, nid, "ValueError", None)
    ELSE IF ~validate_question_key(qs, entry_data.question_key)
    THEN Result(ents, nid, "ValueError", None)
    ELSE Result(ents, nid, "none",
                [id |-> nid, session_id |-> entry_data.session_id,
                 user_id |-> entry_data.user_id,
                 question_key |-> entry_data.question_key,
                 answer_key |-> entry_data.answer_key,
                 custom_input |-> entry_data.custom_input,
                 responseText |-> None])

create_conversation_entry(qs, as, ents, nid, entry_data, o) ==
    IF ~o.openai_key
    THEN Result(ents, nid, "ValueError", None)
    ELSE IF ~validate_question_key(qs, entry_data.question_key)
    THEN Result(ents, nid, "ValueError", None)
    ELSE
      LET answer_key ==
              IF Truthy(entry_data.answer_key)
                 /\ ~validate_answer_key(as, entry_data.answer_key, entry_data.question_key)
              THEN None
              ELSE entry_data.answer_key
          response_text ==
              IF Truthy(entry_data.responseText) THEN entry_data.responseText ELSE None
          db_entry ==
              [id |-> nid,
               session_id |-> entry_data.session_id,
               user_id |-> entry_data.user_id,
               question_key |-> entry_data.question_key,
               answer_key |-> answer_key,
               custom_input |-> entry_data.custom_input,
               response_text |-> response_text,
               select_type |-> entry_data.select_type]
      IN  CASE o.fault = "none" ->
                 Result(insert_row(ents, db_entry), nid + 1, "none", from_orm(db_entry))
            [] o.fault = "commit" ->
                 Result(ents, nid, "ValueError", None)
            [] o.fault = "refresh" ->
                 Result(insert_row(ents, db_entry), nid + 1, "ValueError", None)

\* ---------------------------------------------------------- coordinator
handle_sorry_response(entry_data) ==
    [id |-> 0, session_id |-> entry_data.session_id, user_id |-> entry_data.user_id,
     question_key |-> entry_data.question_key,
     answer_key |-> SORRY_DONT_UNDERSTAND,
     custom_input |-> entry_data.custom_input,
     responseText |-> sorry_message]

\* _extract_dietary_preference(None) raises inside the try blocks below
handle_suggestion_request(entry_data, user_text, o) ==
    IF user_text # None /\ o.sugg_ok
    THEN [id |-> 0, session_id |-> entry_data.session_id, user_id |-> entry_data.user_id,
          question_key |-> entry_data.question_key,
          answer_key |-> SUGGESTION_REQUEST,
          custom_input |-> entry_data.custom_input,
          responseText |-> SUGGESTION_TEXT]
    ELSE handle_sorry_response(entry_data)

get_food_suggestions(user_text, o) ==
    IF user_text # None /\ o.sugg_ok THEN SUGGESTION_TEXT ELSE suggestion_failure_message

\* what the classifier returned to the coordinator; NOT_CALLED when
\* analyze_user_response was not reached
NOT_CALLED == "<not called>"

\* a plausible slip: the classifier runs whether or not text was sent
select_classification_always(as, question_key, response_text, o) ==
    IF ~o.gemini_key THEN NOT_CALLED
    ELSE IF get_active_answers_for_question(as, question_key) = {} THEN NOT_CALLED
    ELSE analyze_user_response(get_active_answers_for_question(as, question_key), o.out)

select_classification(as, question_key, response_text, o) ==
    IF ~Truthy(response_text) THEN NOT_CALLED
    ELSE IF ~o.gemini_key THEN NOT_CALLED
    ELSE IF get_active_answers_for_question(as, question_key) = {} THEN NOT_CALLED
    ELSE analyze_user_response(get_active_answers_for_question(as, question_key), o.out)

\* kind: which branch produced the result
\*   "sorry"      _handle_sorry_response
\*   "suggestion" _handle_suggestion_request / get_food_suggestions
\*   "record"     plain create_conversation_entry
process_select_answer(qs, as, ents, nid, session_id, user_id, question_key, answer_key_in, response_text, o) ==
    LET ai == select_classification(as, question_key, response_text, o)
        answer_key ==
            IF ai = NOT_CALLED THEN answer_key_in
            ELSE IF ai = SORRY_DONT_UNDERSTAND THEN SORRY_DONT_UNDERSTAND
            ELSE IF ai = SUGGESTION_REQUEST THEN SUGGESTION_REQUEST
            ELSE IF Truthy(ai) THEN ai
            ELSE answer_key_in
        entry_data == ConversationEntryCreate(session_id, user_id, question_key,
                          answer_key, None, response_text, "select")
    IN  IF answer_key = SORRY_DONT_UNDERSTAND
        THEN Result(ents, nid, "none", handle_sorry_response(entry_data))
                @@ [ai |-> ai, kind |-> "sorry", created |-> FALSE,
                    entry_in |-> entry_data]
        ELSE IF answer_key = SUGGESTION_REQUEST
        THEN Result(ents, nid, "none",
                    handle_suggestion_request(entry_data, response_text, o))
                @@ [ai |-> ai, kind |-> "suggestion", created |-> FALSE,
                    entry_in |-> entry_data]
        ELSE create_conversation_entry(qs, as, ents, nid, entry_data, o)
                @@ [ai |-> ai, kind |-> "record", created |-> TRUE,
                    entry_in |-> entry_data]

voice_classification(as, question_key, o) ==
    IF ~o.gemini_key THEN NOT_CALLED
    ELSE IF get_active_answers_for_question(as, question_key) = {} THEN NOT_CALLED
    ELSE analyze_user_response(get_active_answers_for_question(as, question_key), o.out)

process_voice_answer(qs, as, ents, nid, session_id, user_id, question_key, voice_text, response_text, o) ==
    LET ai == voice_classification(as, question_key, o)
        matched_answer_key == IF ai = NOT_CALLED THEN None ELSE ai
        entry_data == ConversationEntryCreate(session_id, user_id, question_key,
                          matched_answer_key, voice_text, response_text, "voice")
        rec ==
            IF matched_answer_key = SORRY_DONT_UNDERSTAND
            THEN Result(ents, nid, "none", handle_sorry_response(entry_data))
                    @@ [kind |-> "sorry", created |-> FALSE, entry_in |-> entry_data]
            ELSE IF matched_answer_key = SUGGESTION_REQUEST
            THEN LET withText == [entry_data EXCEPT
                         !.responseText = get_food_suggestions(voice_text, o)]
                 IN  create_conversation_entry(qs, as, ents, nid, withText, o)
                        @@ [kind |-> "suggestion", created |-> TRUE,
                            entry_in |-> withText]
            ELSE create_conversation_entry(qs, as, ents, nid, entry_data, o)
                    @@ [kind |-> "record", created |-> TRUE, entry_in |-> entry_data]
    IN  [entries |-> rec.entries, next_id |-> rec.next_id, raised |-> rec.raised,
         response |-> IF rec.raised = "none"
                      THEN [conversation_entry |-> rec.response,
                            matched |-> matched_answer_key # None,
                            matched_answer_key |-> matched_answer_key,
                            voice_text |-> voice_text]
                      ELSE None,
         ai |-> ai, kind |-> rec.kind, created |-> rec.created,
         entry_in |-> rec.entry_in]

\* the routes: ValueError -> 400, any other exception -> 500
http_status(raised) ==
    IF raised = "none" THEN 200
    ELSE IF raised = "ValueError" THEN 400
    ELSE 500

\* ------------------------------------------------------------ inputs
SESSION_ID == "s1"
USER_ID == "u1"
QuestionKeyInputs == QKeys
AnswerKeyInputs == AKeys \cup {None, EMPTY, NULLSTR,
                               SORRY_DONT_UNDERSTAND, SUGGESTION_REQUEST}
TextInputs == {None, EMPTY, "veg please"}

\* what the caller of the operation in progress is about to receive: the
\* arguments, the branch taken, the result, and what the call met outside
\* the store (o)
Last(op, http, raised, before, ai, kind, created, entry_in, response) ==
    [op |-> op, http |-> http, raised |-> raised, before |-> before,
     ai |-> ai, kind |-> kind, created |-> created,
     question_key |-> entry_in.question_key,
     entry_in |-> entry_in,
     response |-> response, o |-> Calm]

Idle == Last("idle", 0, "none", 0, NOT_CALLED, "none", FALSE,
             [question_key |-> None], None)

\* requests in progress side by side, each on its own database session:
\* where the request stands and the row it is inserting
Workers == {"w1", "w2"}
NoWork == [pc |-> "idle", row |-> [id |-> 0]]

\* the sessions table: language and input_type by session id
SessionIds == {SESSION_ID, "s2"}

\* Cart and CartItem rows (models/cart.py), keyed by their integer ids
MaxItems == 3
CartIds == {1, 2}
ItemIds == 1..MaxItems
NoCart == [exists |-> FALSE, subtotal |-> 0, total_amount |-> 0]
NoCartItem == [exists |-> FALSE, cart_id |-> 0, quantity |-> 0, line_total |-> 0,
               modifier_total |-> 0]
NoSession == [exists |-> FALSE, user_id |-> None, language |-> None,
              input_type |-> None]

\* ------------------------------------------------------------ the state
\* Catalogs of the wizard runs: the foreign key of answer_masters holds,
\* q1 and q2 exist, q3 is the unknown key, and only q1 may be active (the
\* recorder treats every active question alike and never reads
\* question_order).
WizardCatalogs ==
    {c \in QuestionCatalogs :
        /\ c["q1"].exists /\ c["q1"].question_order = 1
        /\ c["q2"].exists /\ c["q2"].question_order = 2 /\ ~c["q2"].is_active
        /\ ~c["q3"].exists}
WizardAnswerCatalogs ==
    {a \in AnswerCatalogs :
        /\ a["a1"].exists => a["a1"].question_key \in {"q1", "q2"}
        /\ ~a["a2"].exists}

Init ==
    /\ questions \in WizardCatalogs
    /\ answers \in WizardAnswerCatalogs
    /\ entries = <<>>
    /\ next_id = 1
    /\ last = Idle
    /\ cursor = None
    /\ chain = <<>>
    /\ chainDone = FALSE
    /\ inflight = [w \in Workers |-> NoWork]
    /\ sessions = [sid \in SessionIds |-> NoSession]
    /\ user_services = <<>>
    /\ carts = [c \in CartIds |-> NoCart]
    /\ cart_items = [i \in ItemIds |-> NoCartItem]

catalog == <<questions, answers>>
commerce == <<user_services, carts, cart_items>>
progression == <<cursor, chain, chainDone>>

\* POST /select/answer
SubmitSelectAnswer ==
    /\ last.op = "idle"
    /\ Len(entries) < MaxEntries
    /\ \E question_key \in QuestionKeyInputs,
          answer_key \in AnswerKeyInputs, responseText \in TextInputs :
        LET request == SelectAnswerRequest(SESSION_ID, USER_ID,
                           question_key, answer_key, responseText)
            run(o) == process_select_answer(questions, answers, entries, next_id,
                          request.session_id, request.user_id, request.question_key,
                          request.answer_key, request.responseText, o)
        IN  \E gemini_key \in (IF Truthy(request.responseText) THEN BOOLEAN ELSE {TRUE}) :
            \E out \in (IF run([Calm EXCEPT !.gemini_key = gemini_key]).ai # NOT_CALLED
                        THEN ModelOutputs ELSE {RAISE}) :
            LET probe == run([Calm EXCEPT !.gemini_key = gemini_key, !.out = out])
            IN  \E sugg_ok \in (IF probe.kind = "suggestion" THEN BOOLEAN ELSE {TRUE}) :
                \E openai_key \in (IF probe.created THEN BOOLEAN ELSE {TRUE}) :
                \E fault \in (IF probe.created /\ openai_key /\ probe.raised = "none"
                              THEN Faults ELSE {"none"}) :
                LET r == run([gemini_key |-> gemini_key, out |-> out,
                              sugg_ok |-> sugg_ok, openai_key |-> openai_key,
                              fault |-> fault])
                IN  /\ entries' = r.entries
                    /\ next_id' = r.next_id
                    /\ last' = [Last("select", http_status(r.raised), r.raised,
                                     Len(entries), r.ai, r.kind, r.created,
                                     r.entry_in, r.response)
                                EXCEPT !.o = [gemini_key |-> gemini_key, out |-> out,
                                              sugg_ok |-> sugg_ok,
                                              openai_key |-> openai_key,
                                              fault |-> fault]]
    /\ UNCHANGED <<catalog, commerce, inflight, sessions, progression>>

\* POST /voice/answer
SubmitVoiceAnswer ==
    /\ last.op = "idle"
    /\ Len(entries) < MaxEntries
    /\ \E question_key \in QuestionKeyInputs, voice_text \in TextInputs :
        LET request == VoiceAnswerRequest(SESSION_ID, USER_ID,
                           question_key, voice_text)
            run(o) == process_voice_answer(questions, answers, entries, next_id,
                          request.session_id, request.user_id, request.question_key,
                          request.voice_text, request.voice_text, o)
        IN  \E gemini_key \in BOOLEAN :
            \E out \in (IF run([Calm EXCEPT !.gemini_key = gemini_key]).ai # NOT_CALLED
                        THEN ModelOutputs ELSE {RAISE}) :
            LET probe == run([Calm EXCEPT !.gemini_key = gemini_key, !.out = out])
            IN  \E sugg_ok \in (IF probe.kind = "suggestion" THEN BOOLEAN ELSE {TRUE}) :
                \E openai_key \in (IF probe.created THEN BOOLEAN ELSE {TRUE}) :
                \E fault \in (IF probe.created /\ openai_key /\ probe.raised = "none"
                              THEN Faults ELSE {"none"}) :
                LET r == run([gemini_key |-> gemini_key, out |-> out,
                              sugg_ok |-> sugg_ok, openai_key |-> openai_key,
                              fault |-> fault])
                IN  /\ entries' = r.entries
                    /\ next_id' = r.next_id
                    /\ last' = [Last("voice", http_status(r.raised), r.raised,
                                     Len(entries), r.ai, r.kind, r.created,
                                     r.entry_in, r.response)
                                EXCEPT !.o = [gemini_key |-> gemini_key, out |-> out,
                                              sugg_ok |-> sugg_ok,
                                              openai_key |-> openai_key,
                                              fault |-> fault]]
    /\ UNCHANGED <<catalog, commerce, inflight, sessions, progression>>

\* GET /select/next-question and GET /voice/next-question
GetNextQuestion ==
    /\ last.op = "idle"
    /\ \E session_id \in SessionIds,
          current_question_key \in QuestionKeyInputs \cup {None, EMPTY} :
        \E picked \in ConversationService_get_next_question(
                          questions, entries, session_id, current_question_key) :
          last' = Last("next", 200, "none", Len(entries), NOT_CALLED, "none", FALSE,
                       [session_id |-> session_id,
                        question_key |-> current_question_key],
                       next_question_route(questions, current_question_key, picked))
    /\ UNCHANGED <<catalog, commerce, inflight, sessions, entries, next_id, progression>>

\* the same client asks again, with the same current_question_key and under
\* any session id; the response keeps the first answer beside the second
GetNextQuestionAgain ==
    /\ last.op = "next"
    /\ \E session_id \in SessionIds :
        \E picked \in ConversationService_get_next_question(
                          questions, entries, session_id, last.question_key) :
          last' = Last("again", 200, "none", Len(entries), NOT_CALLED, "none", FALSE,
                       [session_id |-> session_id,
                        question_key |-> last.question_key],
                       [first |-> last.response,
                        first_session_id |-> last.entry_in.session_id,
                        first_before |-> last.before,
                        second |-> next_question_route(questions, last.question_key, picked)])
    /\ UNCHANGED <<catalog, commerce, inflight, sessions, entries, next_id, progression>>

\* ConversationService.get_conversation_history
get_conversation_history(ents, sid) ==
    LET keep(row) == row.session_id = sid
    IN  SelectSeq(ents, keep)

GetConversationHistory ==
    /\ last.op = "idle"
    /\ \E sid \in {SESSION_ID, "s2"} :
          last' = Last("history", 200, "none", Len(entries), NOT_CALLED, "none", FALSE,
                       [question_key |-> None],
                       get_conversation_history(entries, sid))
    /\ UNCHANGED <<catalog, commerce, inflight, sessions, entries, next_id, progression>>

\* OpenAIAnalyzer.analyze_user_response
openai_analyze_user_response(available_answers, out) ==
    IF available_answers = {} THEN None
    ELSE IF out = RAISE THEN None
    ELSE IF out \in available_answers THEN out
    ELSE None

\* ConversationService.analyze_text_only
analyze_text_only(qs, as, question_key, user_text, o) ==
    IF ~o.openai_key THEN [raised |-> "ValueError", response |-> None]
    ELSE IF ~validate_question_key(qs, question_key)
    THEN [raised |-> "ValueError", response |-> None]
    ELSE [raised |-> "none",
          response |-> openai_analyze_user_response(
                           get_active_answers_for_question(as, question_key), o.out)]

AnalyzeTextOnly ==
    /\ last.op = "idle"
    /\ \E question_key \in QuestionKeyInputs, openai_key \in BOOLEAN,
          out \in ModelOutputs :
        LET r == analyze_text_only(questions, answers, question_key, "veg please",
                     [Calm EXCEPT !.openai_key = openai_key, !.out = out])
        IN  last' = Last("analyze", http_status(r.raised), r.raised, Len(entries),
                         NOT_CALLED, "none", FALSE,
                         [question_key |-> question_key], r.response)
    /\ UNCHANGED <<catalog, commerce, inflight, sessions, entries, next_id, progression>>

\* helpers/voice_matcher.py: similarity scores in hundredths; score[a] is
\* the best of calculate_similarity over the answer text and its variations
threshold == 60
ScoreLevels == {0, 59, 60, 100}
AnswerOrder == <<"a1", "a2">>

\* a plausible slip: an equal score also replaces the best match
improves_or_equals(score, best_score) == score >= best_score /\ score >= threshold

\* if score > best_score and score >= threshold
improves(score, best_score) == score > best_score /\ score >= threshold

RECURSIVE match_loop(_, _, _, _, _)
match_loop(cands, score, i, best_match, best_score) ==
    IF i > Len(cands) THEN best_match
    ELSE IF improves(score[cands[i]], best_score)
         THEN match_loop(cands, score, i + 1, cands[i], score[cands[i]])
         ELSE match_loop(cands, score, i + 1, best_match, best_score)

\* a plausible slip: the first active answer is taken whatever its score
match_voice_to_answer_first(as, score, question_key) ==
    LET active(a) == a \in get_active_answers_for_question(as, question_key)
        cands == SelectSeq(AnswerOrder, active)
    IN  IF cands = <<>> THEN None ELSE cands[1]

match_voice_to_answer(as, score, question_key) ==
    LET active(a) == a \in get_active_answers_for_question(as, question_key)
        cands == SelectSeq(AnswerOrder, active)
    IN  IF cands = <<>> THEN None
        ELSE match_loop(cands, score, 1, None, 0)

\* POST /voice/match-answer
MatchVoiceToAnswer ==
    /\ last.op = "idle"
    /\ \E question_key \in QuestionKeyInputs, score \in [AKeys -> ScoreLevels] :
        LET matched_answer_key == match_voice_to_answer(answers, score, question_key)
        IN  last' = Last("match", 200, "none", Len(entries), NOT_CALLED, "none", FALSE,
                         [question_key |-> question_key],
                         [matched |-> Truthy(matched_answer_key),
                          answer_key |-> IF Truthy(matched_answer_key)
                                         THEN matched_answer_key ELSE None,
                          score |-> score])
    /\ UNCHANGED <<catalog, commerce, inflight, sessions, entries, next_id, progression>>

\* the response reaches the caller
Respond ==
    /\ last.op # "idle"
    /\ last' = Idle
    /\ UNCHANGED <<catalog, commerce, inflight, sessions, entries, next_id, progression>>

Next ==
    \/ SubmitSelectAnswer
    \/ SubmitVoiceAnswer
    \/ GetNextQuestion
    \/ GetConversationHistory
    \/ AnalyzeTextOnly
    \/ MatchVoiceToAnswer
    \/ Respond

Spec == Init /\ [][Next]_vars

\* ------------------------------------------------- food suggestions
\* services/food_suggestion_service.py and the coordinator's call of it.
\* A text is a sequence of fragments; it is empty when all fragments are.
limit == 5
IsEmptyText(t) == \A i \in DOMAIN t : t[i] = EMPTY

\* one item source at the time of a call: the query raises (ok = FALSE) or
\* finds so many rows of the requested dietary type
SourceLevels == {[ok |-> FALSE, rows |-> 0]} \cup [ok : {TRUE}, rows : {0, 2, 6}]
SourceStates == [orders : SourceLevels, cart : SourceLevels, general : SourceLevels]

SuggestionTexts ==
    TextInputs \cup {"VEGAN", "non veg", "surprise me", "non-veg",
                     "Non Vegetarian", "nonvegetarian", "vegan or non-veg"}
lower(t) ==
    CASE t = "VEGAN" -> "vegan"
      [] t = "None" -> "none"
      [] t = "Spanish" -> "spanish"
      [] t = "French" -> "french"
      [] t = "Non Vegetarian" -> "non vegetarian"
      [] OTHER -> t
\* which of the dietary words occur in a lower-case text ('x' in text)
Occurring(t) ==
    CASE t = "vegan" -> {"vegan", "veg"}
      [] t = "non veg" -> {"non veg", "veg"}
      [] t = "veg please" -> {"veg"}
      [] t = "non-veg" -> {"non-veg", "veg"}
      [] t = "non vegetarian" -> {"non veg", "non vegetarian", "veg", "vegetarian"}
      [] t = "nonvegetarian" -> {"nonvegetarian", "veg", "vegetarian"}
      [] t = "vegan or non-veg" -> {"vegan", "non-veg", "veg"}
      [] OTHER -> {}

\* a plausible slip: the test for 'veg' comes first
extract_dietary_preference_veg_first(user_text) ==
    IF user_text = None THEN RAISE
    ELSE LET found == Occurring(lower(user_text))
         IN  IF found \cap {"veg", "vegetarian"} # {} THEN "veg"
             ELSE IF "vegan" \in found THEN "vegan"
             ELSE IF found \cap {"non-veg", "non veg", "nonvegetarian"} # {}
                  THEN "non-veg"
             ELSE "veg"

\* _extract_dietary_preference; None has no lower()
extract_dietary_preference(user_text) ==
    IF user_text = None THEN RAISE
    ELSE LET found == Occurring(lower(user_text))
         IN  IF "vegan" \in found THEN "vegan"
             ELSE IF found \cap {"non-veg", "non veg", "nonvegetarian"} # {}
                  THEN "non-veg"
             ELSE "veg"

Min(a, b) == IF a <= b THEN a ELSE b
Items(source, n) == [i \in 1..n |-> [item_name |-> "item", source |-> source]]

\* _get_suggestions_from_orders / _from_cart / _get_general_suggestions:
\* LIMIT :limit rows; a failing query is caught and gives [], so the call
\* itself never raises
get_suggestions_from(level, source, lim) ==
    [raised |-> FALSE,
     rows |-> IF level.ok THEN Items(source, Min(level.rows, lim)) ELSE <<>>]

\* _get_fallback_suggestions
get_fallback_suggestions(dietary_preference) ==
    CASE dietary_preference = "non-veg" ->
           <<[item_name |-> "Chicken Burger", source |-> "Fallback"],
             [item_name |-> "Beef Steak", source |-> "Fallback"],
             [item_name |-> "Fish & Chips", source |-> "Fallback"]>>
      [] dietary_preference = "vegan" ->
           <<[item_name |-> "Vegan Buddha Bowl", source |-> "Fallback"],
             [item_name |-> "Vegan Tacos", source |-> "Fallback"],
             [item_name |-> "Vegan Smoothie", source |-> "Fallback"]>>
      [] OTHER ->
           <<[item_name |-> "Vegetable Pizza", source |-> "Fallback"],
             [item_name |-> "Caesar Salad", source |-> "Fallback"],
             [item_name |-> "Pasta Primavera", source |-> "Fallback"]>>

\* a plausible slip: every source is asked, each for the full limit
run_suggestion_queries_all(dietary_preference, lim, src) ==
    LET from_orders == get_suggestions_from(src.orders, "Popular Orders", lim)
        from_cart == get_suggestions_from(src.cart, "Cart Items", lim)
        from_general == get_suggestions_from(src.general, "General", lim)
        all == from_orders.rows \o from_cart.rows \o from_general.rows
    IN  [suggestions |-> SubSeq(all, 1, Min(lim, Len(all))),
         queries |-> <<[source |-> "orders", lim |-> lim],
                       [source |-> "cart", lim |-> lim],
                       [source |-> "general", lim |-> lim]>>]

\* get_suggestions_by_dietary_preference: the static list is returned only
\* when something raises inside the try block; queries is the sequence of
\* queries sent to the store, each with its LIMIT
run_suggestion_queries(dietary_preference, lim, src) ==
    LET from_orders == get_suggestions_from(src.orders, "Popular Orders", lim)
        from_cart == get_suggestions_from(src.cart, "Cart Items",
                                          lim - Len(from_orders.rows))
        with_cart ==
            IF Len(from_orders.rows) < lim
            THEN from_orders.rows \o from_cart.rows
            ELSE from_orders.rows
        from_general == get_suggestions_from(src.general, "General",
                                             lim - Len(with_cart))
        with_general ==
            IF Len(with_cart) < lim
            THEN with_cart \o from_general.rows
            ELSE with_cart
        raised ==
            \/ from_orders.raised
            \/ Len(from_orders.rows) < lim /\ from_cart.raised
            \/ Len(with_cart) < lim /\ from_general.raised
    IN  [suggestions |->
             IF raised THEN get_fallback_suggestions(dietary_preference)
             ELSE SubSeq(with_general, 1, Min(lim, Len(with_general))),
         queries |->
             <<[source |-> "orders", lim |-> lim]>>
             \o (IF Len(from_orders.rows) < lim
                 THEN <<[source |-> "cart", lim |-> lim - Len(from_orders.rows)]>>
                 ELSE <<>>)
             \o (IF Len(with_cart) < lim
                 THEN <<[source |-> "general", lim |-> lim - Len(with_cart)]>>
                 ELSE <<>>)]

get_suggestions_by_dietary_preference(dietary_preference, lim, src) ==
    run_suggestion_queries(dietary_preference, lim, src).suggestions

\* format_suggestions_response_with_language
LanguageMessages == {"en", "es", "fr", "hi"}
format_suggestions_response_with_language(suggestions, dietary_preference, language) ==
    LET lang == IF language \in LanguageMessages THEN language ELSE "en"
    IN  IF suggestions = <<>>
        THEN <<"fallback", lang, dietary_preference>>
        ELSE <<"intro", lang, dietary_preference>>
             \o [i \in 1..Len(suggestions) |-> suggestions[i].item_name]
             \o <<"follow_up">>

\* a plausible slip: get_food_suggestions without its try/except
get_food_suggestions_unguarded(user_text, user_language, src) ==
    LET dietary_preference == extract_dietary_preference(user_text)
    IN  IF dietary_preference = RAISE
        THEN [raised |-> "AttributeError", text |-> <<>>]
        ELSE [raised |-> "none",
              text |-> format_suggestions_response_with_language(
                           get_suggestions_by_dietary_preference(
                               dietary_preference, limit, src),
                           dietary_preference, user_language)]

\* ConversationService.get_food_suggestions with the item sources spelled
\* out
get_food_suggestions_from(user_text, user_language, src) ==
    LET dietary_preference == extract_dietary_preference(user_text)
    IN  IF dietary_preference = RAISE
        THEN [raised |-> "none", text |-> <<suggestion_failure_message>>]
        ELSE [raised |-> "none",
              text |-> format_suggestions_response_with_language(
                           get_suggestions_by_dietary_preference(
                               dietary_preference, limit, src),
                           dietary_preference, user_language)]

\* format_suggestions_response: the English wording only
format_suggestions_response(suggestions, dietary_preference) ==
    IF suggestions = <<>>
    THEN <<"fallback", "en", dietary_preference>>
    ELSE <<"intro", "en", dietary_preference>>
         \o [i \in 1..Len(suggestions) |-> suggestions[i].item_name]
         \o <<"follow_up">>

\* ConversationService._handle_suggestion_request with the item sources
\* spelled out: the text of the reply, the apology when something raises
handle_suggestion_request_from(user_text, src) ==
    LET dietary_preference == extract_dietary_preference(user_text)
    IN  IF dietary_preference = RAISE
        THEN [answer_key |-> SORRY_DONT_UNDERSTAND, text |-> <<sorry_message>>]
        ELSE [answer_key |-> SUGGESTION_REQUEST,
              text |-> format_suggestions_response(
                           get_suggestions_by_dietary_preference(
                               dietary_preference, limit, src),
                           dietary_preference)]

\* ConversationService.get_user_language
get_user_language(ss, session_id) ==
    IF session_id \in DOMAIN ss /\ ss[session_id].exists
       /\ Truthy(ss[session_id].language)
    THEN ss[session_id].language
    ELSE "en"

\* what get_user_language returns for a session without a row, and for one
\* whose row carries a code or a language name
UserLanguages ==
    {get_user_language([sid \in SessionIds |-> row], SESSION_ID) :
        row \in {NoSession} \cup
                [exists : {TRUE}, user_id : {None}, language : {"es", "English"},
                 input_type : {"voice"}]}
DietaryPreferences == {"veg", "non-veg", "vegan", "keto"}

\* the coordinator asks for suggestions
GetFoodSuggestions ==
    /\ last.op = "idle"
    /\ \E user_text \in SuggestionTexts, user_language \in UserLanguages,
          src \in SourceStates :
        LET r == get_food_suggestions_from(user_text, user_language, src)
        IN  last' = Last("suggest", 0, r.raised, Len(entries), NOT_CALLED, "none",
                         FALSE, [question_key |-> None],
                         [user_text |-> user_text, src |-> src, text |-> r.text,
                          user_language |-> user_language])
    /\ UNCHANGED <<catalog, commerce, inflight, sessions, entries, next_id, progression>>

\* the select-mode coordinator answers a suggestion request; the session's
\* language has been read (user_language) before the handler is called
HandleSuggestionRequest ==
    /\ last.op = "idle"
    /\ \E user_text \in SuggestionTexts, user_language \in UserLanguages,
          src \in SourceStates :
        LET r == handle_suggestion_request_from(user_text, src)
        IN  last' = Last("handle_suggestion", 0, "none", Len(entries), NOT_CALLED,
                         "none", FALSE, [question_key |-> None],
                         [user_text |-> user_text, src |-> src, text |-> r.text,
                          answer_key |-> r.answer_key,
                          user_language |-> user_language])
    /\ UNCHANGED <<catalog, commerce, inflight, sessions, entries, next_id, progression>>

\* ConversationService._extract_dietary_preference
ExtractDietaryPreference ==
    /\ last.op = "idle"
    /\ \E user_text \in SuggestionTexts :
        LET r == extract_dietary_preference(user_text)
        IN  last' = Last("extract", 0, IF r = RAISE THEN "AttributeError" ELSE "none",
                         Len(entries), NOT_CALLED, "none", FALSE,
                         [question_key |-> None],
                         [user_text |-> user_text, dietary_preference |-> r])
    /\ UNCHANGED <<catalog, commerce, inflight, sessions, entries, next_id, progression>>

\* FoodSuggestionService.get_suggestions_by_dietary_preference
GetSuggestionsByDietaryPreference ==
    /\ last.op = "idle"
    /\ \E dietary_preference \in DietaryPreferences, src \in SourceStates :
        last' = Last("suggestions", 0, "none", Len(entries), NOT_CALLED, "none",
                     FALSE, [question_key |-> None],
                     [dietary_preference |-> dietary_preference, src |-> src,
                      suggestions |-> get_suggestions_by_dietary_preference(
                                          dietary_preference, limit, src),
                      queries |-> run_suggestion_queries(
                                      dietary_preference, limit, src).queries])
    /\ UNCHANGED <<catalog, commerce, inflight, sessions, entries, next_id, progression>>

InitSuggestion ==
    /\ questions = [k \in QKeys |-> NoQuestion]
    /\ answers = [a \in AKeys |-> NoAnswer]
    /\ entries = <<>>
    /\ next_id = 1
    /\ last = Idle
    /\ cursor = None
    /\ chain = <<>>
    /\ chainDone = FALSE
    /\ inflight = [w \in Workers |-> NoWork]
    /\ sessions = [sid \in SessionIds |-> NoSession]
    /\ user_services = <<>>
    /\ carts = [c \in CartIds |-> NoCart]
    /\ cart_items = [i \in ItemIds |-> NoCartItem]

NextSuggestion ==
    \/ ExtractDietaryPreference
    \/ GetFoodSuggestions
    \/ HandleSuggestionRequest
    \/ GetSuggestionsByDietaryPreference
    \/ Respond

SpecSuggestion == InitSuggestion /\ [][NextSuggestion]_vars

\* ------------------------------------------------- the matcher alone
\* every answer catalog over the questions of one wizard catalog
InitMatcher ==
    /\ questions = [k \in QKeys |->
                       IF k = "q3" THEN NoQuestion
                       ELSE [exists |-> TRUE,
                             question_order |-> IF k = "q1" THEN 1 ELSE 2,
                             is_active |-> k = "q1"]]
    /\ answers \in AnswerCatalogs
    /\ entries = <<>>
    /\ next_id = 1
    /\ last = Idle
    /\ cursor = None
    /\ chain = <<>>
    /\ chainDone = FALSE
    /\ inflight = [w \in Workers |-> NoWork]
    /\ sessions = [sid \in SessionIds |-> NoSession]
    /\ user_services = <<>>
    /\ carts = [c \in CartIds |-> NoCart]
    /\ cart_items = [i \in ItemIds |-> NoCartItem]

NextMatcher ==
    \/ MatchVoiceToAnswer
    \/ Respond

SpecMatcher == InitMatcher /\ [][NextMatcher]_vars

\* ------------------------------------------------- the wizard's chain
\* a client walking the wizard: every call passes the key of the question
\* the previous call returned
InitProgression ==
    /\ questions \in QuestionCatalogs
    /\ answers = [a \in AKeys |-> NoAnswer]
    /\ entries = <<>>
    /\ next_id = 1
    /\ last = Idle
    /\ cursor = None
    /\ chain = <<>>
    /\ chainDone = FALSE
    /\ inflight = [w \in Workers |-> NoWork]
    /\ sessions = [sid \in SessionIds |-> NoSession]
    /\ user_services = <<>>
    /\ carts = [c \in CartIds |-> NoCart]
    /\ cart_items = [i \in ItemIds |-> NoCartItem]

ChainedNextQuestion ==
    /\ ~chainDone
    /\ \E picked \in get_next_question(questions, cursor) :
        IF next_question_route(questions, cursor, picked).completed
        THEN /\ chainDone' = TRUE
             /\ UNCHANGED <<cursor, chain>>
        ELSE /\ cursor' = picked
             /\ chain' = Append(chain, picked)
             /\ UNCHANGED chainDone
    /\ UNCHANGED <<catalog, commerce, inflight, sessions, entries, next_id, last>>

NextProgression ==
    \/ ChainedNextQuestion
    \/ GetNextQuestion
    \/ Respond

SpecProgression == InitProgression /\ [][NextProgression]_vars
LiveProgression == SpecProgression /\ WF_vars(ChainedNextQuestion)

\* ------------------------------------------------- language selection
\* services/language_service.py and POST /language/select.
\* The model text is split at the commas: a sequence of raw tokens.
MaxTokens == 2
Tokens == {EMPTY, " None", "Spanish", " French ", "x"}
LanguageOutputs ==
    {[raised |-> TRUE, tokens |-> <<>>]} \cup
    {[raised |-> FALSE, tokens |-> t] :
        t \in UNION {[1..n -> Tokens] : n \in 1..MaxTokens}}

strip(t) ==
    CASE t = " None" -> "None"
      [] t = " French " -> "French"
      [] OTHER -> t
Length(t) ==
    CASE t = EMPTY -> 0
      [] t = "x" -> 1
      [] OTHER -> 7

\* a plausible slip: no default when nothing is left after the clean-up
detect_languages_from_text_no_default(out) ==
    IF out.raised THEN <<"English">>
    ELSE LET stripped == [i \in DOMAIN out.tokens |-> strip(out.tokens[i])]
             keep(lang) == lang # EMPTY /\ lower(lang) # "none"
         IN  SelectSeq(stripped, keep)

\* LanguageService.detect_languages_from_text
detect_languages_from_text(out) ==
    IF out.raised THEN <<"English">>
    ELSE LET stripped == [i \in DOMAIN out.tokens |-> strip(out.tokens[i])]
             keep(lang) == lang # EMPTY /\ lower(lang) # "none"
             languages == SelectSeq(stripped, keep)
         IN  IF languages = <<>> THEN <<"English">> ELSE languages

get_primary_language(languages) ==
    IF languages = <<>> THEN "English" ELSE languages[1]

validate_language(language_name) ==
    /\ strip(language_name) # EMPTY
    /\ Length(strip(language_name)) >= 2
    /\ Length(strip(language_name)) <= 50

\* save_language_to_session, when its commit succeeds
save_language_to_session(ss, session_id, user_id, language_name, input_type) ==
    IF ~ss[session_id].exists
    THEN [ss EXCEPT ![session_id] =
             [exists |-> TRUE, user_id |-> user_id, language |-> language_name,
              input_type |-> input_type]]
    ELSE [ss EXCEPT ![session_id].language = language_name,
                    ![session_id].input_type = input_type,
                    ![session_id].user_id =
                        IF Truthy(user_id) THEN user_id ELSE @]

LanguageTexts == {EMPTY, "Spanish", " French "}

\* POST /language/select
select_language(ss, session_id, user_id, language_text, input_type, gemini_key, out, save_ok) ==
    IF ~gemini_key
    THEN [sessions |-> ss, http |-> 500, detected_languages |-> <<>>,
          selected_language |-> None]
    ELSE IF strip(language_text) = EMPTY
    THEN [sessions |-> ss, http |-> 400, detected_languages |-> <<>>,
          selected_language |-> None]
    ELSE
      LET detected_languages ==
              IF input_type = "text" THEN <<strip(language_text)>>
              ELSE detect_languages_from_text(out)
          selected_language ==
              IF input_type = "text" THEN strip(language_text)
              ELSE get_primary_language(detected_languages)
      IN  IF ~validate_language(selected_language)
          THEN [sessions |-> ss, http |-> 400,
                detected_languages |-> detected_languages,
                selected_language |-> selected_language]
          ELSE IF ~save_ok
          THEN [sessions |-> ss, http |-> 500,
                detected_languages |-> detected_languages,
                selected_language |-> selected_language]
          ELSE [sessions |-> save_language_to_session(ss, session_id, user_id,
                                 selected_language, input_type),
                http |-> 200,
                detected_languages |-> detected_languages,
                selected_language |-> selected_language]

SelectLanguage ==
    /\ last.op = "idle"
    /\ \E session_id \in SessionIds, user_id \in {None, USER_ID},
          language_text \in LanguageTexts, input_type \in {"text", "voice"},
          gemini_key \in BOOLEAN :
        LET called == gemini_key /\ strip(language_text) # EMPTY
        IN  \E out \in (IF called /\ input_type = "voice" THEN LanguageOutputs
                        ELSE {[raised |-> TRUE, tokens |-> <<>>]}),
               save_ok \in (IF called THEN BOOLEAN ELSE {TRUE}) :
            LET r == select_language(sessions, session_id, user_id, language_text,
                                     input_type, gemini_key, out, save_ok)
            IN  /\ sessions' = r.sessions
                /\ last' = Last("language", r.http, "none", Len(entries),
                                NOT_CALLED, "none", FALSE, [question_key |-> None],
                                [session_id |-> session_id,
                                 input_type |-> input_type,
                                 detecting |-> called /\ input_type = "voice",
                                 out |-> out,
                                 detected_languages |-> r.detected_languages,
                                 selected_language |-> r.selected_language])
    /\ UNCHANGED <<catalog, commerce, inflight, entries, next_id, progression>>

NextLanguage ==
    \/ SelectLanguage
    \/ Respond

SpecLanguage == InitSuggestion /\ [][NextLanguage]_vars

\* ------------------------------------------ two steps side by side
\* Each request runs the coordinator on its own database session. The
\* insert of create_conversation_entry is seen by the other request in
\* three steps: the INSERT takes the next AUTO_INCREMENT value of
\* conversation_entries.id, the COMMIT makes the row visible, and the
\* refresh returns it.
InitConcurrent ==
    /\ questions = [k \in QKeys |->
                       IF k = "q3" THEN NoQuestion
                       ELSE [exists |-> TRUE,
                             question_order |-> IF k = "q1" THEN 1 ELSE 2,
                             is_active |-> k = "q1"]]
    /\ answers = [a \in AKeys |->
                     [exists |-> TRUE, question_key |-> "q1", is_active |-> a = "a1"]]
    /\ entries = <<>>
    /\ next_id = 1
    /\ last = Idle
    /\ cursor = None
    /\ chain = <<>>
    /\ chainDone = FALSE
    /\ inflight = [w \in Workers |-> NoWork]
    /\ sessions = [sid \in SessionIds |-> NoSession]
    /\ user_services = <<>>
    /\ carts = [c \in CartIds |-> NoCart]
    /\ cart_items = [i \in ItemIds |-> NoCartItem]

\* a plausible slip: the id is computed from the rows already visible
allocate_id_max(nid, ents) == Len(ents) + 1

\* Column(Integer, primary_key=True, autoincrement=True): the store hands
\* out the counter's value
allocate_id(nid, ents) == nid

\* the request arrives and runs up to the insert: classification and the
\* validations of create_conversation_entry
Arrive(w) ==
    /\ inflight[w].pc = "idle"
    /\ \E mode \in {"select", "voice"}, question_key \in QuestionKeyInputs,
          answer_key \in {None, "a1", "a2"}, text \in {None, "veg please"},
          out \in {"a1", "NONE"} :
        LET o == [Calm EXCEPT !.out = out]
            r == IF mode = "select"
                 THEN process_select_answer(questions, answers, <<>>, 0,
                          SESSION_ID, USER_ID, question_key, answer_key, text, o)
                 ELSE process_voice_answer(questions, answers, <<>>, 0,
                          SESSION_ID, USER_ID, question_key, text, text, o)
        IN  inflight' = [inflight EXCEPT ![w] =
                IF r.raised # "none" THEN [pc |-> "rejected", row |-> [id |-> 0]]
                ELSE IF ~r.created THEN [pc |-> "answered", row |-> [id |-> 0]]
                ELSE [pc |-> "validated", row |-> r.entries[1]]]
    /\ UNCHANGED <<catalog, commerce, sessions, entries, next_id, last, progression>>

\* db.add + flush: INSERT, the id is allocated
Flush(w) ==
    /\ inflight[w].pc = "validated"
    /\ inflight' = [inflight EXCEPT ![w].pc = "flushed",
                                    ![w].row.id = allocate_id(next_id, entries)]
    /\ next_id' = next_id + 1
    /\ UNCHANGED <<catalog, commerce, sessions, entries, last, progression>>

\* db.commit: the row becomes part of the log
Commit(w) ==
    /\ inflight[w].pc = "flushed"
    /\ entries' = insert_row(entries, inflight[w].row)
    /\ inflight' = [inflight EXCEPT ![w].pc = "committed"]
    /\ UNCHANGED <<catalog, commerce, sessions, next_id, last, progression>>

\* db.refresh and the response
Return(w) ==
    /\ inflight[w].pc = "committed"
    /\ inflight' = [inflight EXCEPT ![w].pc = "done"]
    /\ UNCHANGED <<catalog, commerce, sessions, entries, next_id, last, progression>>

NextConcurrent ==
    \E w \in Workers :
        \/ Arrive(w)
        \/ Flush(w)
        \/ Commit(w)
        \/ Return(w)

SpecConcurrent == InitConcurrent /\ [][NextConcurrent]_vars
LiveConcurrent ==
    SpecConcurrent /\ \A w \in Workers : WF_vars(Flush(w) \/ Commit(w) \/ Return(w))

\* ------------------------------------------------- repeated next-question
\* get_next_question asked twice while a wizard step records a turn; the catalogs include questions of equal question_order
InitStateless ==
    /\ questions \in {qs \in QuestionCatalogs :
                         /\ qs["q3"] = NoQuestion
                         /\ \A k \in {"q1", "q2"} : qs[k].exists /\ qs[k].is_active
                         /\ qs["q1"].question_order <= 2
                         /\ qs["q2"].question_order <= 2}
    /\ answers = [a \in AKeys |->
                     [exists |-> TRUE, question_key |-> "q1", is_active |-> a = "a1"]]
    /\ entries = <<>>
    /\ next_id = 1
    /\ last = Idle
    /\ cursor = None
    /\ chain = <<>>
    /\ chainDone = FALSE
    /\ inflight = [w \in Workers |-> NoWork]
    /\ sessions = [sid \in SessionIds |-> NoSession]
    /\ user_services = <<>>
    /\ carts = [c \in CartIds |-> NoCart]
    /\ cart_items = [i \in ItemIds |-> NoCartItem]

NextStateless ==
    \/ GetNextQuestion
    \/ GetNextQuestionAgain
    \/ Respond
    \/ Arrive("w1")
    \/ Flush("w1")
    \/ Commit("w1")
    \/ Return("w1")

SpecStateless == InitStateless /\ [][NextStateless]_vars

\* ------------------------------------------------------ service selection
\* ServiceSelectionService.create_default_services: the services table, the
\* id of a service being its place in the list
MaxSelections == 2
valid_services == <<"Delivery", "Pickup", "Reservation", "Catering", "Events">>
UserIds == {USER_ID, "u2"}
ServiceTexts == {"Delivery", "Pickup", "Haircut"}

\* ServiceSelectionService.validate_service, for names spelled as stored
validate_service(service_name) ==
    \E i \in DOMAIN valid_services : valid_services[i] = service_name

\* ServiceSelectionService.get_service_id_by_name; 0 stands for None
get_service_id_by_name(service_name) ==
    IF validate_service(service_name)
    THEN CHOOSE i \in DOMAIN valid_services : valid_services[i] = service_name
    ELSE 0

\* func.now() and the autoincrement id, read off the rows written so far
now(rows) ==
    LET stamps == {0} \cup {rows[i].selected_at : i \in DOMAIN rows}
    IN  1 + CHOOSE m \in stamps : \A n \in stamps : n <= m

\* db.query(UserService).filter(user_id, service_id).first(): the id of the
\* row found, 0 when there is none
existing_user_service(rows, user_id, service_id) ==
    LET found == {i \in DOMAIN rows : /\ rows[i].user_id = user_id
                                      /\ rows[i].service_id = service_id}
    IN  IF found = {} THEN 0
        ELSE rows[CHOOSE i \in found : \A j \in found : i <= j].id

\* the two branches of save_user_service_selection after the query:
\* update the row found, or add a new one; then commit
write_user_service_selection(rows, existing, user_id, service_id, input_type) ==
    IF existing # 0
    THEN [i \in DOMAIN rows |->
            IF rows[i].id = existing
            THEN [rows[i] EXCEPT !.selected_at = now(rows),
                                 !.input_type = input_type]
            ELSE rows[i]]
    ELSE Append(rows, [id |-> Len(rows) + 1, user_id |-> user_id,
                       service_id |-> service_id, input_type |-> input_type,
                       selected_at |-> now(rows)])

\* POST /services/select up to the query for an existing selection; in
\* voice mode the service is whatever the detection makes of the text
SelectService_Query(w) ==
    /\ inflight[w].pc = "idle"
    /\ \E user_id \in UserIds, input_type \in {"text", "voice"},
          selected_service \in ServiceTexts :
        LET service_id == get_service_id_by_name(selected_service)
        IN  inflight' = [inflight EXCEPT ![w] =
              IF ~validate_service(selected_service) \/ service_id = 0
              THEN [pc |-> "rejected", row |-> [id |-> 0]]
              ELSE [pc |-> "queried",
                    row |-> [id |-> existing_user_service(user_services, user_id, service_id),
                             user_id |-> user_id, service_id |-> service_id,
                             input_type |-> input_type]]]
    /\ UNCHANGED <<catalog, sessions, entries, next_id, last, progression,
                   user_services, carts, cart_items>>

\* the update or the insert, and db.commit()
SelectService_Commit(w) ==
    /\ inflight[w].pc = "queried"
    /\ now(user_services) <= MaxSelections
    /\ user_services' = write_user_service_selection(user_services,
                            inflight[w].row.id, inflight[w].row.user_id,
                            inflight[w].row.service_id, inflight[w].row.input_type)
    /\ inflight' = [inflight EXCEPT ![w].pc = "saved"]
    /\ UNCHANGED <<catalog, sessions, entries, next_id, last, progression,
                   carts, cart_items>>

\* the response: ServiceSelectionResponse, or the 400 of an invalid name
SelectService_Return(w) ==
    /\ inflight[w].pc \in {"saved", "rejected"}
    /\ inflight' = [inflight EXCEPT ![w] = NoWork]
    /\ UNCHANGED <<catalog, sessions, entries, next_id, last, progression,
                   user_services, carts, cart_items>>

NextSelection ==
    \E w \in Workers :
        \/ SelectService_Query(w)
        \/ SelectService_Commit(w)
        \/ SelectService_Return(w)

SpecSelection == InitSuggestion /\ [][NextSelection]_vars

\* ------------------------------------------------------------------ carts
\* CartItem rows as add_item_to_cart leaves them: line_total is price times
\* quantity; modifier_total is the sum of the prices of the item's modifiers
CartItemRows ==
    {NoCartItem} \cup
    {[exists |-> TRUE, cart_id |-> c, quantity |-> q, line_total |-> q,
      modifier_total |-> m] : c \in CartIds, q \in {1, 2}, m \in {0, 1}}

RECURSIVE items_subtotal(_, _, _)
\* the loop of _update_cart_totals over cart.items, items 1..n
items_subtotal(items, cart_id, n) ==
    IF n = 0 THEN 0
    ELSE items_subtotal(items, cart_id, n - 1)
         + (IF items[n].exists /\ items[n].cart_id = cart_id
            THEN items[n].line_total + items[n].modifier_total * items[n].quantity
            ELSE 0)

\* CartHelper._update_cart_totals: tax and discount are 0
update_cart_totals(cs, items, cart_id) ==
    IF cart_id \notin DOMAIN cs \/ ~cs[cart_id].exists THEN cs
    ELSE LET subtotal == items_subtotal(items, cart_id, Len(items))
         IN  [cs EXCEPT ![cart_id].subtotal = subtotal,
                        ![cart_id].total_amount = subtotal + 0 - 0]

\* CartHelper.clear_cart: the delete filters on CartItem.id == cart_id; a
\* row that has modifiers is held by their foreign key, the delete raises
clear_cart(cs, items, cart_id) ==
    IF cart_id \notin DOMAIN cs \/ ~cs[cart_id].exists
    THEN [raised |-> FALSE, success |-> FALSE, carts |-> cs, cart_items |-> items]
    ELSE IF cart_id \in DOMAIN items /\ items[cart_id].exists
            /\ items[cart_id].modifier_total > 0
    THEN [raised |-> TRUE, success |-> FALSE, carts |-> cs, cart_items |-> items]
    ELSE LET kept == [i \in DOMAIN items |->
                        IF i = cart_id THEN NoCartItem ELSE items[i]]
         IN  [raised |-> FALSE, success |-> TRUE,
              carts |-> update_cart_totals(cs, kept, cart_id),
              cart_items |-> kept]

\* the carts the program can hold: items belong to existing carts and the
\* totals are those of the last _update_cart_totals
InitCart ==
    /\ questions = [k \in QKeys |-> NoQuestion]
    /\ answers = [a \in AKeys |-> NoAnswer]
    /\ entries = <<>>
    /\ next_id = 1
    /\ last = Idle
    /\ cursor = None
    /\ chain = <<>>
    /\ chainDone = FALSE
    /\ inflight = [w \in Workers |-> NoWork]
    /\ sessions = [sid \in SessionIds |-> NoSession]
    /\ user_services = <<>>
    /\ cart_items \in [ItemIds -> CartItemRows]
    /\ \E present \in SUBSET CartIds :
          /\ \A i \in ItemIds : cart_items[i].exists => cart_items[i].cart_id \in present
          /\ carts = [c \in CartIds |->
                IF c \in present
                THEN [exists |-> TRUE,
                      subtotal |-> items_subtotal(cart_items, c, MaxItems),
                      total_amount |-> items_subtotal(cart_items, c, MaxItems)]
                ELSE NoCart]

\* DELETE /cart/{cart_id}/clear
ClearCart ==
    /\ last.op = "idle"
    /\ \E cart_id \in CartIds \cup {3} :
        LET r == clear_cart(carts, cart_items, cart_id)
        IN  /\ carts' = r.carts
            /\ cart_items' = r.cart_items
            /\ last' = Last("clear_cart",
                           IF r.raised THEN 500 ELSE IF r.success THEN 200 ELSE 404,
                           IF r.raised THEN "IntegrityError" ELSE "none",
                           Len(entries), NOT_CALLED, "none", FALSE,
                           [question_key |-> None, cart_id |-> cart_id],
                           [success |-> r.success,
                            carts |-> carts, cart_items |-> cart_items])
    /\ UNCHANGED <<catalog, sessions, entries, next_id, inflight, progression,
                   user_services>>

NextCart ==
    \/ ClearCart
    \/ Respond

SpecCart == InitCart /\ [][NextCart]_vars

\* ================================================================ claims
Step == last.op \in {"select", "voice"}
Returned == last.raised = "none"
Inserted == Len(entries) = last.before + 1
NewRow == entries[Len(entries)]
ReturnedEntry == IF last.op = "voice" THEN last.response.conversation_entry
                 ELSE last.response
Range(f) == {f[i] : i \in DOMAIN f}
order(k) == questions[k].question_order
\* the catalog facts the claims speak of, read off the tables
ActiveQuestion(k) ==
    k \in QKeys /\ questions[k].exists /\ questions[k].is_active
ActiveAnswerOf(a, k) ==
    /\ a \in AKeys /\ answers[a].exists /\ answers[a].is_active
    /\ answers[a].question_key = k

\* C1: every wizard step that returns without raising has inserted exactly
\* one new ConversationEntry row.
C1_OneEntryPerStep ==
    (Step /\ Returned) => Inserted

\* C2: every stored row has a null answer_key or one that names an active
\* answer of the row's question.
C2_AnswerValidity ==
    \A i \in DOMAIN entries :
        \/ entries[i].answer_key = None
        \/ ActiveAnswerOf(entries[i].answer_key, entries[i].question_key)

\* C3: the conversation log is append-only: every operation leaves the
\* rows that existed before it in place and unchanged.
C3_AppendOnly ==
    [][/\ Len(entries') >= Len(entries)
       /\ SubSeq(entries', 1, Len(entries)) = entries]_vars

C3_Witness ==
    /\ Step
    /\ last.before >= 1
    /\ Len(entries) = last.before + 1

\* C4: when the classifier returns SORRY_DONT_UNDERSTAND for a turn on an
\* active question, a row for that question is persisted with a null
\* answer_key and the caller receives the fixed apology.
C4_SorryIsRecorded ==
    (/\ Step
     /\ last.ai = SORRY_DONT_UNDERSTAND
     /\ ActiveQuestion(last.question_key)
     /\ Returned)
    => /\ Inserted
       /\ NewRow.question_key = last.question_key
       /\ NewRow.answer_key = None
       /\ ReturnedEntry.responseText = sorry_message

\* C5: when the classifier returns SUGGESTION_REQUEST for a turn on an
\* active question, a row is persisted whose answer_key is
\* SUGGESTION_REQUEST and whose response_text is the generated suggestion.
C5_SuggestionIsRecorded ==
    (/\ Step
     /\ last.ai = SUGGESTION_REQUEST
     /\ ActiveQuestion(last.question_key)
     /\ Returned)
    => /\ Inserted
       /\ NewRow.answer_key = SUGGESTION_REQUEST
       /\ NewRow.response_text \in {SUGGESTION_TEXT, suggestion_failure_message}

\* C6: a create_conversation_entry call that returns, made with an active
\* question and a non-null answer_key that is not an active answer of that
\* question, has inserted one row with a null answer_key and with
\* session_id, user_id, question_key, custom_input and the supplied text
\* as given.
C6_DowngradeToNull ==
    (/\ Step
     /\ last.created
     /\ Returned
     /\ last.entry_in.answer_key # None
     /\ ~ActiveAnswerOf(last.entry_in.answer_key, last.entry_in.question_key))
    => /\ Inserted
       /\ NewRow.answer_key = None
       /\ NewRow.session_id = last.entry_in.session_id
       /\ NewRow.user_id = last.entry_in.user_id
       /\ NewRow.question_key = last.entry_in.question_key
       /\ NewRow.custom_input = last.entry_in.custom_input
       /\ Truthy(last.entry_in.responseText)
            => NewRow.response_text = last.entry_in.responseText

\* C7: create_conversation_entry called with a question_key that names no
\* active question raises the validation error the routes answer with
\* HTTP 400, and inserts nothing.
C7_InvalidQuestionRejected ==
    (/\ Step
     /\ last.created
     /\ ~ActiveQuestion(last.question_key))
    => /\ last.raised = "ValueError"
       /\ last.http = 400
       /\ Len(entries) = last.before

C7_Witness ==
    /\ Step
    /\ last.created
    /\ last.question_key = "q2"
    /\ ~ActiveQuestion(last.question_key)
    /\ last.http = 400

C8_ChainInv ==
    /\ \A i, j \in DOMAIN chain : i < j => order(chain[i]) < order(chain[j])
    /\ \A k \in Range(chain) : ActiveQuestion(k)
    /\ Len(chain) <= Cardinality({k \in QKeys : ActiveQuestion(k)})
    /\ chainDone =>
         {order(k) : k \in Range(chain)} = {order(k) : k \in {j \in QKeys : ActiveQuestion(j)}}

C9_Candidates ==
    IF last.question_key = None
    THEN {k \in QKeys : ActiveQuestion(k)}
    ELSE {k \in QKeys : ActiveQuestion(k) /\ order(k) > order(last.question_key)}

C9_NextIsSmallestGreater ==
    (/\ last.op = "next"
     /\ \/ last.question_key = None
        \/ /\ last.question_key \in QKeys
           /\ questions[last.question_key].exists)
    => IF C9_Candidates = {}
       THEN last.response.completed
       ELSE /\ ~last.response.completed
            /\ last.response.question \in C9_Candidates
            /\ \A k \in C9_Candidates : order(last.response.question) <= order(k)

C9_Witness ==
    /\ last.op = "next"
    /\ last.question_key \in QKeys
    /\ questions[last.question_key].exists
    /\ ~last.response.completed
    /\ \E k \in C9_Candidates : order(k) > order(last.response.question)

\* C10: get_next_question given a key that names no active question ends
\* in a client error, not in the "completed" answer.
C10_InvalidKeyIsClientError ==
    (/\ last.op = "next"
     /\ Truthy(last.question_key)
     /\ ~ActiveQuestion(last.question_key))
    => /\ last.http = 400
       /\ last.response.completed = FALSE

\* the candidate list passed to the classifier for a question
Candidates(k) == {a \in AKeys : ActiveAnswerOf(a, k)}

\* C11: the classifier result the coordinator uses is a key of the
\* candidate list, SORRY_DONT_UNDERSTAND, SUGGESTION_REQUEST or null; a
\* model output that is neither a candidate key nor SUGGESTION_REQUEST
\* gives SORRY_DONT_UNDERSTAND; and a row recorded after a classification
\* never carries a key from outside the candidate list.
C11_FailClosed ==
    (Step /\ last.ai # NOT_CALLED) =>
       /\ last.ai \in Candidates(last.question_key)
                       \cup {SORRY_DONT_UNDERSTAND, SUGGESTION_REQUEST, None}
       /\ last.o.out \notin Candidates(last.question_key)
                               \cup {SUGGESTION_REQUEST, RAISE}
            => last.ai = SORRY_DONT_UNDERSTAND
       /\ (Inserted /\ last.ai # None /\ NewRow.answer_key # None)
            => NewRow.answer_key \in Candidates(last.question_key)

C11_Witness ==
    /\ Step
    /\ last.o.out \in {UNKNOWN_KEY, "a2"}
    /\ last.ai = SORRY_DONT_UNDERSTAND

\* the failures of the classifier: GeminiAnalyzer() raises for want of an
\* API key, or analyze_user_response returns None after the model call
\* raised
ClassifierFailed == ~last.o.gemini_key \/ last.ai = None
RecorderHealthy == last.o.openai_key /\ last.o.fault = "none"

\* C12: when the classifier fails during a turn on an active question (and
\* the recorder works), the step returns; in select mode with a supplied
\* key that is an active answer of the question the row carries that key;
\* with no key supplied (select without a hint, or voice) the row carries
\* a null answer_key and the caller receives the apology.
C12_ClassifierFailureDegrades ==
    (/\ Step
     /\ ClassifierFailed
     /\ ActiveQuestion(last.question_key)
     /\ RecorderHealthy)
    => /\ Returned
       /\ (last.op = "select"
            /\ ActiveAnswerOf(last.entry_in.answer_key, last.question_key))
           => /\ Inserted
              /\ NewRow.answer_key = last.entry_in.answer_key
       /\ (last.op = "voice" \/ last.entry_in.answer_key = None)
           => /\ Inserted
              /\ NewRow.answer_key = None
              /\ ReturnedEntry.responseText = sorry_message

\* C13: a select turn with an answer key and no free text never reaches
\* the classifier; if the question is active, the key is an active answer
\* of it and the recorder works, one row is recorded with exactly that key.
C13_PreChosenSkipsClassifier ==
    (/\ last.op = "select"
     /\ ~Truthy(last.entry_in.responseText)
     /\ last.entry_in.answer_key # None)
    => /\ last.ai = NOT_CALLED
       /\ (/\ ActiveQuestion(last.question_key)
           /\ ActiveAnswerOf(last.entry_in.answer_key, last.question_key)
           /\ RecorderHealthy)
          => /\ Returned
             /\ Inserted
             /\ NewRow.answer_key = last.entry_in.answer_key

C13_Witness ==
    /\ last.op = "select"
    /\ ~Truthy(last.entry_in.responseText)
    /\ ActiveAnswerOf(last.entry_in.answer_key, last.question_key)
    /\ Inserted
    /\ NewRow.answer_key = "a1"

\* C14: match_voice_to_answer returns null when the question has no active
\* answer and when every active answer of the question scores below the
\* threshold; a non-null result is the key of an active answer of the
\* question.
C14_MatcherThreshold ==
    last.op = "match" =>
       /\ Candidates(last.question_key) = {} => last.response.answer_key = None
       /\ (\A a \in Candidates(last.question_key) :
               last.response.score[a] < threshold)
            => last.response.answer_key = None
       /\ last.response.answer_key # None
            => last.response.answer_key \in Candidates(last.question_key)

C14_Witness ==
    /\ last.op = "match"
    /\ Cardinality(Candidates(last.question_key)) = 2
    /\ \E a \in Candidates(last.question_key) : last.response.score[a] = 59
    /\ \A a \in Candidates(last.question_key) : last.response.score[a] < threshold
    /\ last.response.answer_key = None

\* C15: get_food_suggestions and get_suggestions_by_dietary_preference
\* never raise, whatever the text and whatever the item sources do, and
\* get_food_suggestions returns a non-empty text.
C15_SuggestionNeverRaises ==
    /\ last.op \in {"suggest", "suggestions"} => last.raised = "none"
    /\ last.op = "suggest" => ~IsEmptyText(last.response.text)

C15_Witness ==
    /\ last.op = "suggest"
    /\ last.response.user_text = "veg please"
    /\ \A t \in {"orders", "cart", "general"} : ~last.response.src[t].ok
    /\ last.response.text[1] = "fallback"

\* C16: when none of the three item sources yields an item, whether empty
\* or failing, get_suggestions_by_dietary_preference returns the static
\* three-item list of the preference (the vegetarian one for an
\* unrecognised preference).
C16_FallbackWhenNoItems ==
    (/\ last.op = "suggestions"
     /\ \A t \in {"orders", "cart", "general"} :
           ~last.response.src[t].ok \/ last.response.src[t].rows = 0)
    => /\ Len(last.response.suggestions) = 3
       /\ \A i \in 1..3 : last.response.suggestions[i].source = "Fallback"

\* the insert of the turn in progress failed at commit or at refresh
PersistenceFailed == Step /\ last.created /\ last.o.fault # "none"

\* C17: when persisting a turn fails (at commit or at refresh), the call
\* ends in an error and the log holds exactly the rows it held before.
C17_RollbackRestoresLog ==
    PersistenceFailed
    => /\ last.raised # "none"
       /\ Len(entries) = last.before

\* C18: a failed insert reaches the HTTP caller as a server error (5xx),
\* unlike the 400 of an invalid question key.
C18_PersistenceFailureIs5xx ==
    PersistenceFailed
    => /\ last.http >= 500
       /\ last.http < 600

\* C19: of two steps in progress at once on one session id, both leading
\* to an insert, each one's row ends up in the log with an id of its own,
\* no row of the log is lost or replaced, and each step that reached its
\* insert finishes.
Persisting(w) == inflight[w].pc \in {"validated", "flushed", "committed", "done"}

C19_BothRecorded ==
    /\ \A i, j \in DOMAIN entries : i # j => entries[i].id # entries[j].id
    /\ \A w \in Workers :
         inflight[w].pc \in {"committed", "done"}
           => \E i \in DOMAIN entries : entries[i] = inflight[w].row
    /\ Len(entries) =
         Cardinality({w \in Workers : inflight[w].pc \in {"committed", "done"}})

C19_ConcurrentStepsBothRecorded ==
    /\ []C19_BothRecorded
    /\ \A w \in Workers : Persisting(w) ~> (inflight[w].pc = "done")

C19_Witness ==
    /\ \A w \in Workers : inflight[w].pc = "done"
    /\ Len(entries) = 2
    /\ entries[1].id = 2
    /\ entries[1].session_id = entries[2].session_id

\* the raw tokens from which the clean-up keeps nothing
NothingParsed(out) ==
    \A i \in DOMAIN out.tokens : out.tokens[i] \in {EMPTY, " None"}

\* C20: in voice-mode language selection detect_languages_from_text always
\* returns a non-empty list; it returns exactly <<"English">> when the
\* model call fails or no language name is left after parsing the model
\* output, and the language then saved for the session is English.
C20_DefaultsToEnglish ==
    (last.op = "language" /\ last.response.detecting)
    => /\ last.response.detected_languages # <<>>
       /\ (last.response.out.raised \/ NothingParsed(last.response.out))
            => /\ last.response.detected_languages = <<"English">>
               /\ last.http = 200
                    => sessions[last.response.session_id].language = "English"

C20_Witness ==
    /\ last.op = "language"
    /\ last.response.detecting
    /\ ~last.response.out.raised
    /\ Len(last.response.out.tokens) = 2
    /\ NothingParsed(last.response.out)
    /\ last.http = 200
    /\ sessions[last.response.session_id].language = "English"

\* C21: a wizard step that records a turn for a session id leaves a Session
\* row for that id in the store, creating it if there was none.
C21_StepCreatesSession ==
    (Step /\ Returned /\ Inserted) => sessions[NewRow.session_id].exists

\* C22: in the result of a voice step, matched is true exactly when the
\* turn resolved to a key of the question's candidate list; it is false
\* when the classifier returned SORRY_DONT_UNDERSTAND or failed.
C22_MatchedMeansResolved ==
    (last.op = "voice" /\ Returned)
    => (last.response.matched <=> last.ai \in Candidates(last.question_key))

\* the place of a candidate in the order the answers are iterated
Place(a) == CHOOSE i \in DOMAIN AnswerOrder : AnswerOrder[i] = a

\* C23: when some active answer of the question scores at least the
\* threshold, match_voice_to_answer returns a candidate of maximum score,
\* and of several candidates of maximum score the first in iteration
\* order.
C23_BestFirstWins ==
    (/\ last.op = "match"
     /\ \E a \in Candidates(last.question_key) :
           last.response.score[a] >= threshold)
    => /\ last.response.answer_key \in Candidates(last.question_key)
       /\ \A a \in Candidates(last.question_key) :
            /\ last.response.score[a] <= last.response.score[last.response.answer_key]
            /\ last.response.score[a] = last.response.score[last.response.answer_key]
                 => Place(last.response.answer_key) <= Place(a)

C23_Witness ==
    /\ last.op = "match"
    /\ Candidates(last.question_key) = {"a1", "a2"}
    /\ last.response.score["a1"] = 100
    /\ last.response.score["a2"] = 100
    /\ last.response.answer_key = "a1"

\* how many of the returned items came from a source
CountFrom(s, tag) == Cardinality({i \in DOMAIN s : s[i].source = tag})

\* C24: get_suggestions_by_dietary_preference asks order items first, for
\* limit rows; cart items next, only if fewer than limit items were found,
\* and for the remaining count; the union last, under the same rule; and
\* it never returns more than limit items.
C24_SourcesInOrder ==
    last.op = "suggestions" =>
      LET s == last.response.suggestions
          q == last.response.queries
          n1 == CountFrom(s, "Popular Orders")
          n2 == CountFrom(s, "Cart Items")
          expected ==
              <<[source |-> "orders", lim |-> limit]>>
              \o (IF n1 < limit THEN <<[source |-> "cart", lim |-> limit - n1]>>
                  ELSE <<>>)
              \o (IF n1 + n2 < limit
                  THEN <<[source |-> "general", lim |-> limit - n1 - n2]>>
                  ELSE <<>>)
      IN  /\ Len(s) <= limit
          /\ q = expected
          /\ \A i, j \in DOMAIN s :
               (i < j /\ s[j].source = "Popular Orders") => s[i].source = "Popular Orders"
          /\ \A i, j \in DOMAIN s :
               (i < j /\ s[i].source = "General") => s[j].source = "General"

C24_Witness ==
    /\ last.op = "suggestions"
    /\ last.response.queries = <<[source |-> "orders", lim |-> 5],
                                 [source |-> "cart", lim |-> 3],
                                 [source |-> "general", lim |-> 1]>>
    /\ Len(last.response.suggestions) = 5

\* the languages that have a template of their own
Templates == {"en", "es", "fr", "hi"}

\* C25: every suggestion reply the coordinator builds, in voice mode
\* (get_food_suggestions) and in select mode (_handle_suggestion_request),
\* is worded in the session's language when that language has a template
\* and in English otherwise.
C25_ReplyInSessionLanguage ==
    (/\ last.op \in {"suggest", "handle_suggestion"}
     /\ last.response.text[1] \in {"intro", "fallback"})
    => last.response.text[2] =
          IF last.response.user_language \in Templates
          THEN last.response.user_language ELSE "en"

\* C26: for every utterance _extract_dietary_preference returns vegan if
\* the lower-cased utterance contains 'vegan'; otherwise non-veg if it
\* contains 'non-veg', 'non veg', 'non vegetarian' or 'nonvegetarian';
\* otherwise veg.
C26_DietaryPrecedence ==
    (last.op = "extract" /\ last.response.user_text # None)
    => LET found == Occurring(lower(last.response.user_text))
       IN  /\ last.raised = "none"
           /\ last.response.dietary_preference =
                IF "vegan" \in found THEN "vegan"
                ELSE IF found \cap {"non-veg", "non veg", "non vegetarian",
                                    "nonvegetarian"} # {}
                     THEN "non-veg"
                ELSE "veg"

C26_Witness ==
    /\ last.op = "extract"
    /\ last.response.user_text = "vegan or non-veg"
    /\ last.response.dietary_preference = "vegan"

\* C27: within one wizard step the classifier has finished before the
\* insert (the row carries the key the classifier chose), the insert is
\* committed before the result is returned (a returned recording finds its
\* row in the log, under the id it reports), and a step that ends before
\* the insert leaves the log as it was.
C27_StepOrder ==
    Step =>
       /\ (last.ai \in Candidates(last.question_key) /\ Inserted)
            => NewRow.answer_key = last.ai
       /\ (last.created /\ Returned)
            => /\ Inserted
               /\ NewRow.id = ReturnedEntry.id
       /\ (~last.created \/ (last.raised # "none" /\ last.o.fault = "none"))
            => Len(entries) = last.before

C27_Witness ==
    /\ Step
    /\ last.ai = "a1"
    /\ last.created
    /\ Returned
    /\ Inserted
    /\ NewRow.answer_key = "a1"
    /\ NewRow.id = ReturnedEntry.id


C28_ReadOnly ==
    (last' # last /\ last'.op \in {"next", "again"})
    => UNCHANGED <<questions, answers, entries, next_id, sessions, commerce>>

\* C28 as amended: the two calls return a question of the same
\* question_order or both return none (the same question when the active
\* questions have pairwise distinct question_order), whatever the session
\* ids and whatever turns were recorded in between, and the calls change no
\* stored state.
C28_SameOrderInv ==
    last.op = "again" =>
       LET a == last.response.first
           b == last.response.second
       IN  /\ a.completed = b.completed
           /\ ~a.completed => order(a.question) = order(b.question)
           /\ (\A j, k \in QKeys :
                  (ActiveQuestion(j) /\ ActiveQuestion(k) /\ j # k)
                     => order(j) # order(k))
                => a.question = b.question

C29_OneRowPerSelection ==
    \A i, j \in DOMAIN user_services :
        (/\ user_services[i].user_id = user_services[j].user_id
         /\ user_services[i].service_id = user_services[j].service_id)
        => i = j


\* C30: after clear_cart(cart_id) has returned true, no CartItem row with
\* that cart_id is left, the cart's subtotal and total_amount are 0 and the
\* items of the other carts are as they were; when the cart does not exist
\* clear_cart returns false and changes nothing.
C30_ClearCartFrame ==
    last.op = "clear_cart" =>
      LET cart_id == last.entry_in.cart_id
          was == last.response
      IN  /\ last.response.success
               => /\ \A i \in ItemIds :
                       ~(cart_items[i].exists /\ cart_items[i].cart_id = cart_id)
                  /\ carts[cart_id].subtotal = 0
                  /\ carts[cart_id].total_amount = 0
                  /\ \A i \in ItemIds :
                       (was.cart_items[i].exists /\ was.cart_items[i].cart_id # cart_id)
                          => cart_items[i] = was.cart_items[i]
          /\ (cart_id \notin CartIds \/ ~was.carts[cart_id].exists)
               => /\ ~last.response.success
                  /\ last.raised = "none"
                  /\ carts = was.carts
                  /\ cart_items = was.cart_items

====
